---- MODULE Spec2Model ----
(***************************************************************************)
(* A model of mxrlang's CodeGen pass: the visitor that lowers a typed AST   *)
(* (module -> declarations -> statements -> expressions) to LLVM IR.        *)
(*                                                                         *)
(* The recursion of the statement visitor is flattened into an explicit     *)
(* stack of frames (one per visit() activation that iterates a statement    *)
(* list); expression lowering, which neither opens scopes nor creates       *)
(* blocks, is the recursive operator EvalExpr.  LLVM values have pointer    *)
(* identity, modelled by a counter of fresh ids.                            *)
(***************************************************************************)
EXTENDS Integers, Sequences, FiniteSets, TLC

VARIABLES
    ast,          \* the ModuleDecl being lowered (the input)
    stack,        \* activations of visit(ModuleDecl/FunDecl/IfStmt/WhileStmt), top first
    scopes,       \* env: the chain of Environments, outermost first
    funcs,        \* the llvm::Module's function list
    globals,      \* the llvm::Module's global variable list
    currFun,      \* CodeGen::currFun (a function name, or NoFun)
    currBB,       \* the builder's insertion block (a block id, or NoBB)
    interResult,  \* CodeGen::interResult
    nextId,       \* the next fresh identity of an llvm::Value / BasicBlock
    status,       \* "idle", "lowering", "done" or "fatal"
    exec,         \* the state of a run of the produced IR (after lowering)
    build         \* "assert": assert() is compiled in; "release": NDEBUG is defined

vars == <<ast, stack, scopes, funcs, globals, currFun, currBB, interResult,
          nextId, status, exec, build>>

-----------------------------------------------------------------------------
(* Source-level types (Type::TypeKind) and their LLVM representation.       *)

IntT == [k |-> "Int"]
BoolT == [k |-> "Bool"]
ArrT(n, sub) == [k |-> "Array", n |-> n, sub |-> sub]
PtrT(sub) == [k |-> "Pointer", sub |-> sub]

TypeKind(ty) == ty.k
GetSubtype(ty) == ty.sub

RECURSIVE ToLLVMType(_)
ToLLVMType(ty) ==
    CASE ty.k = "Int" -> [l |-> "i64"]
      [] ty.k = "Bool" -> [l |-> "i1"]
      [] ty.k = "Array" -> [l |-> "array", n |-> ty.n, el |-> ToLLVMType(ty.sub)]
      [] ty.k = "Pointer" -> [l |-> "ptr", to |-> ToLLVMType(ty.sub)]

I64 == [l |-> "i64"]

-----------------------------------------------------------------------------
(* llvm::Value handles.                                                     *)

Null == [v |-> "null"]
ConstInt(lty, n) == [v |-> "const", ty |-> lty, n |-> n]
ConstGEP(lty, base, idxs, inb) ==
    [v |-> "constgep", ty |-> lty, base |-> base, idxs |-> idxs, inb |-> inb]
ConstArr(lty, vals) == [v |-> "constarray", ty |-> lty, vals |-> vals]
Poison == [v |-> "poison"]
InstV(id) == [v |-> "inst", id |-> id]
ArgV(i) == [v |-> "arg", i |-> i]
GlobalV(name) == [v |-> "global", name |-> name]
FuncV(name) == [v |-> "func", name |-> name]

IsConstant(val) ==
    val.v \in {"const", "constgep", "constarray", "poison", "global", "func"}

\* llvm::dyn_cast<llvm::Constant> / llvm::dyn_cast<llvm::Function>
DynCastConstant(val) == IF IsConstant(val) THEN val ELSE Null
DynCastFunction(val) == IF val.v = "func" THEN val ELSE Null

Zero64 == ConstInt(I64, 0)

-----------------------------------------------------------------------------
(* The AST (Tree.h): expressions carry their resolved type.                 *)

IntLit(n) == [e |-> "IntLiteral", n |-> n, ty |-> IntT]
BoolLit(b) == [e |-> "BoolLiteral", b |-> b, ty |-> BoolT]
Var(name, ty) == [e |-> "Var", name |-> name, ty |-> ty]
Load(x, ty) == [e |-> "Load", x |-> x, ty |-> ty]
Assign(dest, src) == [e |-> "Assign", dest |-> dest, src |-> src, ty |-> src.ty]
BinArith(op, l, r) == [e |-> "BinaryArith", op |-> op, l |-> l, r |-> r, ty |-> IntT]
BinLogical(op, l, r) == [e |-> "BinaryLogical", op |-> op, l |-> l, r |-> r, ty |-> BoolT]
Unary(op, x) == [e |-> "Unary", op |-> op, x |-> x, ty |-> x.ty]
ArrayAccess(arr, el, ty) == [e |-> "ArrayAccess", arr |-> arr, el |-> el, ty |-> ty]
ArrayInit(vals, ty) == [e |-> "ArrayInit", vals |-> vals, ty |-> ty]
PointerOp(kind, x, ty) == [e |-> "PointerOp", kind |-> kind, x |-> x, ty |-> ty]
Call(name, args, ty) == [e |-> "Call", name |-> name, args |-> args, ty |-> ty]

NoExpr == [e |-> "none"]

ExprStmt(x) == [s |-> "Expr", x |-> x]
IfStmt(cond, thenBody, elseBody) ==
    [s |-> "If", cond |-> cond, thenBody |-> thenBody, elseBody |-> elseBody]
WhileStmt(cond, body) == [s |-> "While", cond |-> cond, body |-> body]
ReturnStmt(x) == [s |-> "Return", x |-> x]
PrintStmt(x) == [s |-> "Print", x |-> x]
ScanStmt(x) == [s |-> "Scan", x |-> x]
VarDecl(name, ty, global, init, lowered) ==
    [s |-> "Var", name |-> name, ty |-> ty, global |-> global,
     init |-> init, lowered |-> lowered]
FunDecl(name, retTy, args, body) ==
    [s |-> "Fun", name |-> name, retTy |-> retTy, args |-> args, body |-> body]
ModuleDecl(body) == [s |-> "Module", body |-> body]

-----------------------------------------------------------------------------
(* The scope manager: env is a chain of Environments; ValueScopeMgr is the  *)
(* RAII guard that enters a scope when constructed and leaves it when       *)
(* destroyed.                                                               *)

EmptyScope == [n \in {} |-> Null]

EnterScope(sc) == Append(sc, EmptyScope)
ExitScope(sc) == SubSeq(sc, 1, Len(sc) - 1)

\* env->insert(value, name): binds in the innermost scope.
Insert(sc, val, name) ==
    [sc EXCEPT ![Len(sc)] =
        [n \in DOMAIN sc[Len(sc)] \cup {name} |->
            IF n = name THEN val ELSE sc[Len(sc)][n]]]

\* env->find(name): innermost scope first; Null when no active scope binds it.
RECURSIVE Find(_, _)
Find(sc, name) ==
    IF Len(sc) = 0 THEN Null
    ELSE IF name \in DOMAIN sc[Len(sc)] THEN sc[Len(sc)][name]
    ELSE Find(ExitScope(sc), name)

-----------------------------------------------------------------------------
(* The llvm::IRBuilder calls the pass makes.  Each returns the instructions *)
(* it inserts (none when the default constant folder folds the operation),  *)
(* the resulting value and the next fresh id.                               *)

Built(ins, res, id) == [ins |-> ins, res |-> res, id |-> id]

SDiv(a, b) ==
    LET q == (IF a < 0 THEN -a ELSE a) \div (IF b < 0 THEN -b ELSE b)
    IN IF (a < 0) = (b < 0) THEN q ELSE -q

Fold(op, a, b) ==
    LET bit(t) == ConstInt([l |-> "i1"], IF t THEN 1 ELSE 0)
    IN CASE op = "add" -> ConstInt(a.ty, a.n + b.n)
         [] op = "sub" -> ConstInt(a.ty, a.n - b.n)
         [] op = "mul" -> ConstInt(a.ty, a.n * b.n)
         [] op = "sdiv" -> IF b.n = 0 THEN Poison ELSE ConstInt(a.ty, SDiv(a.n, b.n))
         [] op = "and" -> ConstInt(a.ty, IF a.n = 1 /\ b.n = 1 THEN 1 ELSE 0)
         [] op = "or" -> ConstInt(a.ty, IF a.n = 1 \/ b.n = 1 THEN 1 ELSE 0)
         [] op = "eq" -> bit(a.n = b.n)
         [] op = "noteq" -> bit(a.n # b.n)
         [] op = "greater" -> bit(a.n > b.n)
         [] op = "greatereq" -> bit(a.n >= b.n)
         [] op = "less" -> bit(a.n < b.n)
         [] op = "lesseq" -> bit(a.n <= b.n)

\* CreateAdd, CreateSub, CreateMul, CreateSDiv, CreateAnd, CreateOr, CreateICmp*
CreateBin(op, l, r, id) ==
    IF l.v = "const" /\ r.v = "const"
    THEN Built(<<>>, Fold(op, l, r), id)
    ELSE Built(<<[op |-> op, id |-> id, l |-> l, r |-> r]>>, InstV(id), id + 1)

\* CreateNeg is sub 0, x; CreateNot is xor x, -1.
CreateNeg(x, id) ==
    IF x.v = "const" THEN Built(<<>>, ConstInt(x.ty, 0 - x.n), id)
    ELSE Built(<<[op |-> "neg", id |-> id, x |-> x]>>, InstV(id), id + 1)

CreateNot(x, id) ==
    IF x.v = "const"
    THEN Built(<<>>, ConstInt(x.ty, IF x.ty.l = "i1" THEN 1 - x.n ELSE 0 - x.n - 1), id)
    ELSE Built(<<[op |-> "not", id |-> id, x |-> x]>>, InstV(id), id + 1)

CreateLoad(lty, ptr, id) ==
    Built(<<[op |-> "load", id |-> id, ty |-> lty, ptr |-> ptr]>>, InstV(id), id + 1)

CreateStore(val, ptr, id) ==
    Built(<<[op |-> "store", id |-> id, val |-> val, ptr |-> ptr]>>, InstV(id), id + 1)

\* CreateGEP / CreateInBoundsGEP: a constant base with constant indices folds
\* to a constant expression.
CreateGEP(lty, base, idxs, inb, id) ==
    IF IsConstant(base) /\ \A i \in DOMAIN idxs : IsConstant(idxs[i])
    THEN Built(<<>>, ConstGEP(lty, base, idxs, inb), id)
    ELSE Built(<<[op |-> "gep", id |-> id, ty |-> lty, base |-> base,
                  idxs |-> idxs, inb |-> inb]>>, InstV(id), id + 1)

CreateCall(callee, args, id) ==
    Built(<<[op |-> "call", id |-> id, callee |-> callee, args |-> args]>>,
          InstV(id), id + 1)

CreateAlloca(lty, name, id) == [op |-> "alloca", id |-> id, ty |-> lty, name |-> name]
CreateBr(dest, id) == [op |-> "br", id |-> id, dest |-> dest]
CreateCondBr(cond, t, f, id) == [op |-> "condbr", id |-> id, cond |-> cond, t |-> t, f |-> f]
CreateRet(val, id) == [op |-> "ret", id |-> id, val |-> val]

IsTerminator(i) == i.op \in {"br", "condbr", "ret"}

-----------------------------------------------------------------------------
(* Expression lowering: CodeGen::visit(Expr).  EvalExpr(x, sc, id) is    *)
(* evaluate(x) under environment sc with next fresh id `id`: the            *)
(* instructions appended at the builder's insertion point, the resulting    *)
(* interResult, the next id, and the assertions/null uses that fired.       *)

Res(ins, res, id, fail) == [ins |-> ins, res |-> res, id |-> id, fail |-> fail]
After(prev, b, fail) == Res(prev.ins \o b.ins, b.res, b.id, prev.fail \cup fail)

ArithOp(kind) ==
    CASE kind = "Add" -> "add" [] kind = "Div" -> "sdiv"
      [] kind = "Mul" -> "mul" [] kind = "Sub" -> "sub"

LogicalOp(kind) ==
    CASE kind = "And" -> "and" [] kind = "Eq" -> "eq"
      [] kind = "Greater" -> "greater" [] kind = "GreaterEq" -> "greatereq"
      [] kind = "Less" -> "less" [] kind = "LessEq" -> "lesseq"
      [] kind = "NotEq" -> "noteq" [] kind = "Or" -> "or"

\* A variant lowering that treats every base as a pointer: the base is loaded
\* and indexed with one index.
ArrayAccessAlwaysLoad(arrTy, array, element, id) ==
    LET ld == CreateLoad(ToLLVMType(arrTy), array, id)
        gep == CreateGEP(ToLLVMType(arrTy), ld.res, <<element>>, FALSE, ld.id)
    IN Res(ld.ins \o gep.ins, gep.res, gep.id, {})

\* visit(ArrayAccessExpr), after the base and the element were evaluated.
ArrayAccessGEP(arrTy, array, element, id) ==
    IF TypeKind(arrTy) = "Array"
    THEN After(Res(<<>>, Null, id, {}),
               CreateGEP(ToLLVMType(arrTy), array, <<Zero64, element>>, TRUE, id), {})
    ELSE LET ld == CreateLoad(ToLLVMType(arrTy), array, id)
             gep == CreateGEP(ToLLVMType(GetSubtype(arrTy)), ld.res, <<element>>, FALSE, ld.id)
         IN Res(ld.ins \o gep.ins, gep.res, gep.id,
                IF TypeKind(arrTy) = "Pointer" THEN {} ELSE {"assert"})

\* visit(LoadExpr), after the operand was evaluated.
LoadOrDecay(ty, subTy, addr, id) ==
    IF TypeKind(ty) = "Array"
    THEN CreateGEP(ToLLVMType(subTy), addr, <<Zero64, Zero64>>, FALSE, id)
    ELSE CreateLoad(ToLLVMType(ty), addr, id)

\* A variant lowering in which a dereference loads the pointee type.
LoadPointee(kind, operandTy, val, id) ==
    IF kind = "AddressOf" THEN Res(<<>>, val, id, {})
    ELSE IF TypeKind(operandTy) # "Pointer"
    THEN After(Res(<<>>, val, id, {}), CreateLoad(ToLLVMType(operandTy), val, id), {"assert"})
    ELSE After(Res(<<>>, val, id, {}),
               CreateLoad(ToLLVMType(GetSubtype(operandTy)), val, id), {})

\* visit(PointerOpExpr), after the operand was evaluated.
PointerOpResult(kind, operandTy, val, id) ==
    IF kind = "AddressOf" THEN Res(<<>>, val, id, {})
    ELSE After(Res(<<>>, val, id, {}), CreateLoad(ToLLVMType(operandTy), val, id),
               IF TypeKind(operandTy) = "Pointer" THEN {} ELSE {"assert"})

\* The value of F at v, with v computed once: the visitor's "evaluate, then
\* go on with interResult".
Then(v, F(_)) == CHOOSE y \in {F(h) : h \in {v}} : TRUE

RECURSIVE EvalExpr(_, _, _)
RECURSIVE EvalList(_, _, _)

\* evaluate() of each expression of xs in order: the values, in order.
EvalList(xs, sc, id) ==
    IF xs = <<>> THEN Res(<<>>, <<>>, id, {})
    ELSE Then(EvalExpr(Head(xs), sc, id), LAMBDA h :
         Then(EvalList(Tail(xs), sc, h.id), LAMBDA t :
              Res(h.ins \o t.ins, <<h.res>> \o t.res, t.id, h.fail \cup t.fail)))

EvalExpr(x, sc, id) ==
    CASE x.e = "IntLiteral" -> Res(<<>>, ConstInt(ToLLVMType(x.ty), x.n), id, {})
      [] x.e = "BoolLiteral" ->
            Res(<<>>, ConstInt(ToLLVMType(x.ty), IF x.b THEN 1 ELSE 0), id, {})
      [] x.e = "Var" ->
            LET valAlloca == Find(sc, x.name)
            IN Res(<<>>, valAlloca, id, IF valAlloca = Null THEN {"assert"} ELSE {})
      [] x.e = "Load" ->
            Then(EvalExpr(x.x, sc, id), LAMBDA a :
                 After(a, LoadOrDecay(x.ty, x.x.ty, a.res, a.id), {}))
      [] x.e = "Assign" ->
            Then(EvalExpr(x.src, sc, id), LAMBDA source :
            Then(EvalExpr(x.dest, sc, source.id), LAMBDA destVal :
                 LET st == CreateStore(source.res, destVal.res, destVal.id)
                 IN Res(source.ins \o destVal.ins \o st.ins, destVal.res, st.id,
                        source.fail \cup destVal.fail)))
      [] x.e = "BinaryArith" ->
            Then(EvalExpr(x.l, sc, id), LAMBDA left :
            Then(EvalExpr(x.r, sc, left.id), LAMBDA right :
                 After(Res(left.ins \o right.ins, Null, right.id, left.fail \cup right.fail),
                       CreateBin(ArithOp(x.op), left.res, right.res, right.id), {})))
      [] x.e = "BinaryLogical" ->
            Then(EvalExpr(x.l, sc, id), LAMBDA left :
            Then(EvalExpr(x.r, sc, left.id), LAMBDA right :
                 After(Res(left.ins \o right.ins, Null, right.id, left.fail \cup right.fail),
                       CreateBin(LogicalOp(x.op), left.res, right.res, right.id), {})))
      [] x.e = "Unary" ->
            Then(EvalExpr(x.x, sc, id), LAMBDA a :
                 After(a, IF x.op = "NegArith" THEN CreateNeg(a.res, a.id)
                          ELSE CreateNot(a.res, a.id), {}))
      [] x.e = "ArrayAccess" ->
            Then(EvalExpr(x.arr, sc, id), LAMBDA array :
            Then(EvalExpr(x.el, sc, array.id), LAMBDA element :
                 LET acc == ArrayAccessGEP(x.arr.ty, array.res, element.res, element.id)
                 IN Res(array.ins \o element.ins \o acc.ins, acc.res, acc.id,
                        array.fail \cup element.fail \cup acc.fail)))
      [] x.e = "ArrayInit" ->
            Then(EvalList(x.vals, sc, id), LAMBDA vals :
                 LET consts == [i \in DOMAIN vals.res |-> DynCastConstant(vals.res[i])]
                 IN Res(vals.ins, ConstArr(ToLLVMType(x.ty), consts), vals.id,
                        vals.fail \cup IF \E i \in DOMAIN consts : consts[i] = Null
                                       THEN {"null"} ELSE {}))
      [] x.e = "PointerOp" ->
            Then(EvalExpr(x.x, sc, id), LAMBDA a :
                 LET r == PointerOpResult(x.kind, x.x.ty, a.res, a.id)
                 IN Res(a.ins \o r.ins, r.res, r.id, a.fail \cup r.fail))
      [] x.e = "Call" ->
            Then(EvalList(x.args, sc, id), LAMBDA args :
                 LET callee == DynCastFunction(Find(sc, x.name))
                 IN After(Res(args.ins, Null, args.id, args.fail),
                          CreateCall(callee, args.res, args.id),
                          IF callee = Null THEN {"null"} ELSE {}))

-----------------------------------------------------------------------------
(* The llvm::Module under construction.                                     *)

NoFun == "<none>"
NoBB == 0 - 1

FunIdx(fs, fn) == CHOOSE i \in DOMAIN fs : fs[i].name = fn
GetFun(fs, fn) == fs[FunIdx(fs, fn)]

\* builder.Create*: instructions go to the end of the insertion block.
Emit(fs, fn, bb, ins) ==
    LET put(blocks) ==
            [b \in DOMAIN blocks |->
                IF blocks[b].id = bb
                THEN [blocks[b] EXCEPT !.ins = blocks[b].ins \o ins]
                ELSE blocks[b]]
    IN [fs EXCEPT ![FunIdx(fs, fn)].blocks = put(fs[FunIdx(fs, fn)].blocks)]

\* llvm::IRBuilder<> tmpBuilder(&entry, entry.begin()): instructions go in
\* front of what the entry block held when the builder was made.
EmitAtEntryBegin(fs, fn, ins) ==
    LET blocks == fs[FunIdx(fs, fn)].blocks
    IN [fs EXCEPT ![FunIdx(fs, fn)].blocks =
            [blocks EXCEPT ![1].ins = ins \o blocks[1].ins]]

\* BasicBlock::Create(ctx, name, fun) and getBasicBlockList().push_back(bb)
PushBlock(fs, fn, id, name) ==
    [fs EXCEPT ![FunIdx(fs, fn)].blocks =
        Append(fs[FunIdx(fs, fn)].blocks, [id |-> id, name |-> name, ins |-> <<>>])]

\* createFunctionType + createFunction: an external declaration, no blocks yet.
CreateFunction(decl) ==
    [name |-> decl.name,
     ret |-> ToLLVMType(decl.retTy),
     params |-> [i \in DOMAIN decl.args |-> ToLLVMType(decl.args[i].ty)],
     varArg |-> FALSE,
     linkage |-> "external",
     blocks |-> <<>>]

\* createPrintScanFunctions: printf, scanf and the two format strings.
I8Ptr == [l |-> "ptr", to |-> [l |-> "i8"]]
Zero32 == ConstInt([l |-> "i32"], 0)

BuiltinFun(name) ==
    [name |-> name, ret |-> [l |-> "i32"], params |-> <<I8Ptr>>, varArg |-> TRUE,
     linkage |-> "external", blocks |-> <<>>]

FormatGlobal(name, str, len) ==
    [name |-> name, ty |-> [l |-> "array", n |-> len, el |-> [l |-> "i8"]],
     linkage |-> "private", init |-> [v |-> "conststring", s |-> str]]

FormatPtr(name, len) ==
    ConstGEP([l |-> "array", n |-> len, el |-> [l |-> "i8"]], GlobalV(name),
             <<Zero32, Zero32>>, TRUE)

printFun == FuncV("printf")
scanFun == FuncV("__isoc99_scanf")
printFormatStr == FormatPtr("formatstr", 6)
scanFormatStr == FormatPtr("formatstr.1", 5)

BuiltinFuns == <<BuiltinFun("printf"), BuiltinFun("__isoc99_scanf")>>
BuiltinGlobals ==
    <<FormatGlobal("formatstr", "%lld\n", 6), FormatGlobal("formatstr.1", "%lld", 5)>>

GlobalIdx(gs, name) == CHOOSE i \in DOMAIN gs : gs[i].name = name
HasGlobal(gs, name) == \E i \in DOMAIN gs : gs[i].name = name

\* module->getOrInsertGlobal(name, ty): an external prototype without an
\* initializer unless the module already holds a global of that name.
GetOrInsertGlobal(gs, name, lty) ==
    IF HasGlobal(gs, name) THEN gs
    ELSE Append(gs, [name |-> name, ty |-> lty, linkage |-> "external", init |-> Null])

-----------------------------------------------------------------------------
(* The visitor's activations.                                               *)

Top == stack[Len(stack)]
Pop(st) == SubSeq(st, 1, Len(st) - 1)
ReplaceTop(st, fr) == [st EXCEPT ![Len(st)] = fr]

BodyFrames == {"fun", "then", "else", "while"}

\* The visitor is about to evaluate() the next statement of a statement list.
AtStmt ==
    /\ status = "lowering"
    /\ stack # <<>>
    /\ Top.f \in BodyFrames
    /\ Top.rest # <<>>

Stmt == Head(Top.rest)
Advance(st) == ReplaceTop(st, [st[Len(st)] EXCEPT !.rest = Tail(@)])

\* The body loop of the activation on top has no statement left.
AtEnd(kind) ==
    /\ status = "lowering"
    /\ stack # <<>>
    /\ Top.f = kind
    /\ Top.rest = <<>>

\* An assertion that fired, or a null handle that was used, ends the pass.
Outcome(fail) == IF fail = {} THEN "lowering" ELSE "fatal"

\* Instructions created while the builder has no insertion block are not
\* inserted anywhere.
EmitCur(fs, fn, bb, ins) == IF bb = NoBB THEN fs ELSE Emit(fs, fn, bb, ins)

\* setCurrBB(bb)
SetCurrBB(bb) == bb

ModuleFrame(pass, i) == [f |-> "module", pass |-> pass, i |-> i]

\* A variant visitor with a single loop: each function's body is lowered right
\* after the function was declared.
SingleLoopDecl(pass, i) ==
    IF pass = 1
    THEN (IF i = 0 THEN ModuleFrame(IF Len(ast.body) = 0 THEN 2 ELSE 1, 1) ELSE ModuleFrame(2, i))
    ELSE ModuleFrame(IF i >= Len(ast.body) THEN 2 ELSE 1, i + 1)

\* The position after declaration i of the loop of pass `pass`: the second
\* loop starts when the first has run out.
NextDecl(pass, i) ==
    IF pass = 1 /\ i >= Len(ast.body) THEN ModuleFrame(2, 1)
    ELSE ModuleFrame(pass, i + 1)

AtDecl(pass) ==
    /\ status = "lowering"
    /\ stack # <<>>
    /\ Top.f = "module"
    /\ Top.pass = pass
    /\ Top.i <= Len(ast.body)

Decl == ast.body[Top.i]

-----------------------------------------------------------------------------
(* visit(ModuleDecl)                                                        *)

ModuleBegin ==
    /\ status = "idle"
    /\ scopes' = EnterScope(scopes)
    /\ funcs' = funcs \o BuiltinFuns
    /\ globals' = globals \o BuiltinGlobals
    /\ stack' = <<NextDecl(1, 0)>>
    /\ status' = "lowering"
    /\ UNCHANGED <<ast, build, currFun, currBB, interResult, nextId, exec>>

\* First loop, a FunDecl: forward declaration.
ForwardDeclare(fs, decl) == Append(fs, CreateFunction(decl))

Pass1Fun ==
    /\ AtDecl(1)
    /\ Decl.s = "Fun"
    /\ funcs' = ForwardDeclare(funcs, Decl)
    /\ scopes' = Insert(scopes, FuncV(Decl.name), Decl.name)
    /\ stack' = ReplaceTop(stack, NextDecl(1, Top.i))
    /\ UNCHANGED <<ast, build, globals, currFun, currBB, interResult, nextId, status, exec>>

\* visit(VarDecl), global branch: the global is made private and bound, then
\* the initializer, if any, is evaluated and set.
GlobalLinkage == "private"

DeclareGlobal(gs, decl) ==
    [GetOrInsertGlobal(gs, decl.name, ToLLVMType(decl.ty))
        EXCEPT ![GlobalIdx(GetOrInsertGlobal(gs, decl.name, ToLLVMType(decl.ty)),
                           decl.name)].linkage = GlobalLinkage]

SetInitializer(gs, name, r) ==
    [gs EXCEPT ![GlobalIdx(gs, name)].init = DynCastConstant(r.res)]

GlobalInitializer(decl, sc, id, ir) ==
    IF decl.init = NoExpr THEN Res(<<>>, ir, id, {}) ELSE EvalExpr(decl.init, sc, id)

\* A variant in which the pass may stop at any global's initializer, or go on.
EitherOutcome(g, decl, r) == {"fatal", Outcome(r.fail)}

\* GlobalVariable::setInitializer asserts that the initializer has the
\* global's value type: a build with assertions stops there, a build without
\* them sets the initializer all the same.
InitializerOutcomes(g, decl, r) ==
    IF decl.init # NoExpr /\ r.res.v \in {"const", "constarray"} /\ r.res.ty # g.ty
       /\ build = "assert"
    THEN {"fatal"}
    ELSE {Outcome(r.fail)}

GlobalVarStep(decl, gs, r) ==
    /\ globals' = IF decl.init = NoExpr THEN gs ELSE SetInitializer(gs, decl.name, r)
    /\ funcs' = EmitCur(funcs, currFun, currBB, r.ins)
    /\ nextId' = r.id
    /\ interResult' = r.res
    /\ status' \in InitializerOutcomes(gs[GlobalIdx(gs, decl.name)], decl, r)

VisitGlobalVar(decl, sc) ==
    /\ scopes' = sc
    /\ GlobalVarStep(decl, DeclareGlobal(globals, decl),
                     GlobalInitializer(decl, sc, nextId, interResult))

Pass1Var ==
    /\ AtDecl(1)
    /\ Decl.s = "Var"
    /\ Decl.global
    /\ VisitGlobalVar(Decl, Insert(scopes, GlobalV(Decl.name), Decl.name))
    /\ stack' = ReplaceTop(stack, NextDecl(1, Top.i))
    /\ UNCHANGED <<ast, build, currFun, currBB, exec>>

\* Second loop, a declaration that is no FunDecl: skipped.
Pass2Skip ==
    /\ AtDecl(2)
    /\ Decl.s # "Fun"
    /\ stack' = ReplaceTop(stack, NextDecl(2, Top.i))
    /\ UNCHANGED <<ast, build, scopes, funcs, globals, currFun, currBB, interResult,
                   nextId, status, exec>>

ModuleEnd ==
    /\ status = "lowering"
    /\ stack # <<>>
    /\ Top.f = "module"
    /\ Top.pass = 2
    /\ Top.i > Len(ast.body)
    /\ scopes' = ExitScope(scopes)
    /\ stack' = Pop(stack)
    /\ status' = "done"
    /\ UNCHANGED <<ast, build, funcs, globals, currFun, currBB, interResult, nextId, exec>>

-----------------------------------------------------------------------------
(* visit(FunDecl)                                                           *)

\* One round of the parameter loop: an alloca and a store of the incoming
\* argument in front of the entry block.
ArgSlot(lty, name, i, id) == <<CreateAlloca(lty, name, id)>> \o CreateStore(ArgV(i), InstV(id), id + 1).ins

\* A variant that binds the parameter's name to the incoming argument itself.
RawArgument(i, id) == ArgV(i)

\* What the parameter's name is bound to.
ArgBinding(i, id) == InstV(id)

RECURSIVE RecordArgs(_, _, _, _, _, _)
RecordArgs(args, i, fn, fs, sc, id) ==
    IF i > Len(args) THEN [funcs |-> fs, scopes |-> sc, id |-> id]
    ELSE RecordArgs(args, i + 1, fn,
                    EmitAtEntryBegin(fs, fn, ArgSlot(GetFun(fs, fn).params[i], args[i].name, i, id)),
                    Insert(sc, ArgBinding(i, id), args[i].name),
                    id + 2)

FunBeginStep(fun, entryBB, r) ==
    /\ currFun' = fun.name
    /\ currBB' = SetCurrBB(entryBB)
    /\ funcs' = r.funcs
    /\ scopes' = r.scopes
    /\ nextId' = r.id

FunBeginWith(fun) ==
    /\ fun # Null
    /\ FunBeginStep(fun, nextId,
                    RecordArgs(Decl.args, 1, fun.name,
                               PushBlock(funcs, fun.name, nextId, "entry"),
                               EnterScope(scopes), nextId + 1))

FunBegin ==
    /\ AtDecl(2)
    /\ Decl.s = "Fun"
    /\ FunBeginWith(DynCastFunction(Find(scopes, Decl.name)))
    /\ stack' = Append(stack, [f |-> "fun", rest |-> Decl.body])
    /\ UNCHANGED <<ast, build, globals, interResult, status, exec>>

\* The body loop is over: scopeMgr is destroyed and the second loop goes on.
FunEndScopes(sc) == ExitScope(sc)

FunEnd ==
    /\ AtEnd("fun")
    /\ scopes' = FunEndScopes(scopes)
    /\ stack' = ReplaceTop(Pop(stack), NextDecl(2, stack[Len(stack) - 1].i))
    /\ UNCHANGED <<ast, build, funcs, globals, currFun, currBB, interResult, nextId,
                   status, exec>>

-----------------------------------------------------------------------------
(* Statement lowering.                                                      *)

\* What a statement's evaluation leaves: r.ins at the insertion point.
StmtStep(r) ==
    /\ funcs' = EmitCur(funcs, currFun, currBB, r.ins)
    /\ interResult' = r.res
    /\ nextId' = r.id
    /\ status' = Outcome(r.fail)

\* visit(ExprStmt)
LowerExprStmt ==
    /\ AtStmt
    /\ Stmt.s = "Expr"
    /\ StmtStep(EvalExpr(Stmt.x, scopes, nextId))
    /\ stack' = Advance(stack)
    /\ UNCHANGED <<ast, build, scopes, globals, currFun, currBB, exec>>

\* visit(ReturnStmt)
VisitReturn(r) == Res(r.ins \o <<CreateRet(r.res, r.id)>>, r.res, r.id + 1, r.fail)

LowerReturn ==
    /\ AtStmt
    /\ Stmt.s = "Return"
    /\ StmtStep(VisitReturn(EvalExpr(Stmt.x, scopes, nextId)))
    /\ stack' = Advance(stack)
    /\ UNCHANGED <<ast, build, scopes, globals, currFun, currBB, exec>>

\* visit(PrintStmt)
VisitPrint(r) ==
    Res(r.ins \o CreateCall(printFun, <<printFormatStr, r.res>>, r.id).ins,
        r.res, r.id + 1, r.fail)

LowerPrint ==
    /\ AtStmt
    /\ Stmt.s = "Print"
    /\ StmtStep(VisitPrint(EvalExpr(Stmt.x, scopes, nextId)))
    /\ stack' = Advance(stack)
    /\ UNCHANGED <<ast, build, scopes, globals, currFun, currBB, exec>>

\* visit(ScanStmt)
\* A variant lowering that passes the variable's loaded value to scanf.
ScanLoadedValue(r) ==
    Res(r.ins \o CreateLoad(I64, r.res, r.id).ins
              \o CreateCall(scanFun, <<scanFormatStr, InstV(r.id)>>, r.id + 1).ins,
        r.res, r.id + 2, r.fail)

VisitScan(r) ==
    Res(r.ins \o CreateCall(scanFun, <<scanFormatStr, r.res>>, r.id).ins,
        r.res, r.id + 1, r.fail)

LowerScan ==
    /\ AtStmt
    /\ Stmt.s = "Scan"
    /\ StmtStep(VisitScan(EvalExpr(Stmt.x, scopes, nextId)))
    /\ stack' = Advance(stack)
    /\ UNCHANGED <<ast, build, scopes, globals, currFun, currBB, exec>>

\* visit(VarDecl), local branch: the alloca goes to the front of the entry
\* block and is bound to the name; the initializer's store, or the lowered
\* per-element assignments, go to the builder's insertion point.
LocalSlot(decl, id) == CreateAlloca(ToLLVMType(decl.ty), decl.name, id)

StoreInit(r, slot) == Res(r.ins \o CreateStore(r.res, slot, r.id).ins, r.res, r.id + 1, r.fail)

LocalInitializer(decl, sc, slot, id, ir) ==
    IF decl.init = NoExpr THEN Res(<<>>, ir, id, {})
    ELSE StoreInit(EvalExpr(decl.init, sc, id), slot)

LoweredAfter(init, r, hadInit) ==
    Res(init.ins \o r.ins, r.res[Len(r.res)], r.id,
        init.fail \cup r.fail \cup IF hadInit THEN {"assert"} ELSE {})

\* A variant lowering that drops the per-element assignments.
SkipLoweredInit(decl, sc, init) == init

LocalLoweredInit(decl, sc, init) ==
    IF Len(decl.lowered) = 0 THEN init
    ELSE LoweredAfter(init, EvalList(decl.lowered, sc, init.id), decl.init # NoExpr)

LocalVarStep(fs, r) ==
    /\ funcs' = EmitCur(fs, currFun, currBB, r.ins)
    /\ interResult' = r.res
    /\ nextId' = r.id
    /\ status' = Outcome(r.fail)

VisitLocalVar(decl, sc) ==
    /\ scopes' = sc
    /\ LocalVarStep(EmitAtEntryBegin(funcs, currFun, <<LocalSlot(decl, nextId)>>),
                    LocalLoweredInit(decl, sc,
                        LocalInitializer(decl, sc, InstV(nextId), nextId + 1, interResult)))

LowerVarDecl ==
    /\ AtStmt
    /\ Stmt.s = "Var"
    /\ ~Stmt.global
    /\ VisitLocalVar(Stmt, Insert(scopes, InstV(nextId), Stmt.name))
    /\ stack' = Advance(stack)
    /\ UNCHANGED <<ast, build, globals, currFun, currBB, exec>>

-----------------------------------------------------------------------------
(* visit(IfStmt)                                                            *)

\* A variant lowering in which the false edge always goes to a block of its
\* own, as if every if had an else.
ElseTargetAlwaysFresh(elseBody, mergeBB, freshBB) == freshBB

\* ElseBB is MergeBB if there is no ELSE block.
ElseTarget(elseBody, mergeBB, freshBB) == IF elseBody = <<>> THEN mergeBB ELSE freshBB

\* A variant guard that never leaves the scope it entered.
KeepScope(sc) == sc

\* The scope guard of a body: made before the body loop, destroyed after it.
BodyEnterScopes(sc) == EnterScope(sc)
BodyExitScopes(sc) == ExitScope(sc)

IfFrame(st, mergeBB, elseBB) ==
    [f |-> "then", rest |-> st.thenBody, elseBody |-> st.elseBody,
     mergeBB |-> mergeBB, elseBB |-> elseBB]

\* The blocks are created (then, merge, and else when there is an ELSE body),
\* then the conditional branch.
IfBlocks(st, r, thenBB, mergeBB, elseBB, brId) ==
    /\ funcs' = EmitCur(PushBlock(funcs, currFun, thenBB, "then"), currFun, currBB,
                        r.ins \o <<CreateCondBr(r.res, thenBB, elseBB, brId)>>)
    /\ interResult' = r.res
    /\ nextId' = brId + 1
    /\ status' = Outcome(r.fail)
    /\ currBB' = SetCurrBB(thenBB)
    /\ scopes' = BodyEnterScopes(scopes)
    /\ stack' = Append(Advance(stack), IfFrame(st, mergeBB, elseBB))

IfBeginWith(st, r) ==
    IfBlocks(st, r, r.id, r.id + 1, ElseTarget(st.elseBody, r.id + 1, r.id + 2),
             IF st.elseBody = <<>> THEN r.id + 2 ELSE r.id + 3)

\* From the condition to the start of the THEN body.
IfBegin ==
    /\ AtStmt
    /\ Stmt.s = "If"
    /\ IfBeginWith(Stmt, EvalExpr(Stmt.cond, scopes, nextId))
    /\ UNCHANGED <<ast, build, globals, currFun, exec>>

\* The branch that closes the THEN path.
ThenBranch(fr, id) == CreateBr(fr.mergeBB, id)

\* After the THEN body: its scope is left, the path branches to merge, and
\* either the ELSE block is started or, with no ELSE body, the merge block.
ThenEndWith(fr, sc, fs) ==
    IF fr.elseBody # <<>>
    THEN /\ funcs' = PushBlock(fs, currFun, fr.elseBB, "else")
         /\ currBB' = SetCurrBB(fr.elseBB)
         /\ scopes' = BodyEnterScopes(sc)
         /\ stack' = ReplaceTop(stack, [f |-> "else", rest |-> fr.elseBody,
                                        mergeBB |-> fr.mergeBB])
    ELSE /\ funcs' = PushBlock(fs, currFun, fr.mergeBB, "merge")
         /\ currBB' = SetCurrBB(fr.mergeBB)
         /\ scopes' = sc
         /\ stack' = Pop(stack)

ThenEnd ==
    /\ AtEnd("then")
    /\ ThenEndWith(Top, BodyExitScopes(scopes),
                   EmitCur(funcs, currFun, currBB, <<ThenBranch(Top, nextId)>>))
    /\ nextId' = nextId + 1
    /\ UNCHANGED <<ast, build, globals, currFun, interResult, status, exec>>

\* The branch that closes the ELSE path.
ElseBranch(fr, id) == CreateBr(fr.mergeBB, id)

\* After the ELSE body.
ElseEnd ==
    /\ AtEnd("else")
    /\ scopes' = BodyExitScopes(scopes)
    /\ funcs' = PushBlock(EmitCur(funcs, currFun, currBB, <<ElseBranch(Top, nextId)>>),
                          currFun, Top.mergeBB, "merge")
    /\ currBB' = SetCurrBB(Top.mergeBB)
    /\ nextId' = nextId + 1
    /\ stack' = Pop(stack)
    /\ UNCHANGED <<ast, build, globals, currFun, interResult, status, exec>>

-----------------------------------------------------------------------------
(* visit(WhileStmt)                                                         *)

\* The branch that makes the current block valid.
\* A variant lowering that enters the loop at its body (a do-while).
LoopEntryAtBody(condBB, id) == CreateBr(condBB + 1, id)

LoopEntryBranch(condBB, id) == CreateBr(condBB, id)

\* The conditional branch of the condition block.
LoopCondBr(cond, bodyBB, mergeBB, id) == CreateCondBr(cond, bodyBB, mergeBB, id)

WhileFrame(st, condBB, mergeBB) ==
    [f |-> "while", rest |-> st.body, condBB |-> condBB, mergeBB |-> mergeBB]

\* The condition block is appended and entered from the current block, the
\* test is emitted into it, and the body block is appended.
WhileBlocks(st, r, condBB, bodyBB, mergeBB, brId) ==
    /\ funcs' =
          PushBlock(
              EmitCur(
                  EmitCur(PushBlock(funcs, currFun, condBB, "cond"), currFun, currBB,
                          <<LoopEntryBranch(condBB, brId)>>),
                  currFun, condBB, r.ins \o <<LoopCondBr(r.res, bodyBB, mergeBB, r.id)>>),
              currFun, bodyBB, "body")
    /\ interResult' = r.res
    /\ nextId' = r.id + 1
    /\ status' = Outcome(r.fail)
    /\ currBB' = SetCurrBB(bodyBB)
    /\ scopes' = BodyEnterScopes(scopes)
    /\ stack' = Append(Advance(stack), WhileFrame(st, condBB, mergeBB))

\* From the creation of the blocks to the start of the body.
WhileBegin ==
    /\ AtStmt
    /\ Stmt.s = "While"
    /\ WhileBlocks(Stmt, EvalExpr(Stmt.cond, scopes, nextId + 4),
                   nextId, nextId + 1, nextId + 2, nextId + 3)
    /\ UNCHANGED <<ast, build, globals, currFun, exec>>

\* Branch to the condition BB.
BackBranch(fr, id) == CreateBr(fr.condBB, id)

\* After the body.
WhileEnd ==
    /\ AtEnd("while")
    /\ scopes' = BodyExitScopes(scopes)
    /\ funcs' = PushBlock(EmitCur(funcs, currFun, currBB, <<BackBranch(Top, nextId)>>),
                          currFun, Top.mergeBB, "merge")
    /\ currBB' = SetCurrBB(Top.mergeBB)
    /\ nextId' = nextId + 1
    /\ stack' = Pop(stack)
    /\ UNCHANGED <<ast, build, globals, currFun, interResult, status, exec>>

-----------------------------------------------------------------------------
(* A run of the produced IR: what the backend's code does when a lowered    *)
(* function is called.  Memory is a map from cells (an allocation or a      *)
(* global, and an offset counted in scalar slots) to values.                *)

ArgVals == {0, 1}       \* the values a run passes for a parameter
ScanInputs == {0, 1}    \* the values a run's scanf may read

IntR(n) == [r |-> "int", n |-> n]
AddrR(obj, off) == [r |-> "addr", obj |-> obj, off |-> off]
UndefR == [r |-> "undef"]
FnR(name) == [r |-> "fn", name |-> name]

Cell(a) == [obj |-> a.obj, off |-> a.off]
Put(m, k, val) == [x \in DOMAIN m \cup {k} |-> IF x = k THEN val ELSE m[x]]

\* sizeof, in scalar slots.
RECURSIVE SizeOf(_)
SizeOf(lty) == IF lty.l = "array" THEN lty.n * SizeOf(lty.el) ELSE 1

\* getelementptr: the first index steps over whole objects of the source
\* element type, each further index steps into the aggregate.
RECURSIVE InnerOffset(_, _)
InnerOffset(lty, idxs) ==
    IF idxs = <<>> THEN 0
    ELSE idxs[1].n * SizeOf(lty.el) + InnerOffset(lty.el, Tail(idxs))

GEPValue(lty, base, idxs) ==
    IF base.r = "addr" /\ \A i \in DOMAIN idxs : idxs[i].r = "int"
    THEN AddrR(base.obj, base.off + idxs[1].n * SizeOf(lty) + InnerOffset(lty, Tail(idxs)))
    ELSE UndefR

\* The value of an operand in a run with registers regs and arguments args.
RECURSIVE OperandVal(_, _, _)
OperandVal(val, regs, args) ==
    CASE val.v = "const" -> IntR(val.n)
      [] val.v = "inst" -> IF val.id \in DOMAIN regs THEN regs[val.id] ELSE UndefR
      [] val.v = "arg" -> args[val.i]
      [] val.v = "global" -> AddrR(val, 0)
      [] val.v = "func" -> FnR(val.name)
      [] val.v = "constgep" ->
            GEPValue(val.ty, OperandVal(val.base, regs, args),
                     [i \in DOMAIN val.idxs |-> OperandVal(val.idxs[i], regs, args)])
      [] OTHER -> UndefR

\* The cells the module's globals start with.
GlobalCells(g) ==
    CASE g.init.v = "const" -> {<<[obj |-> GlobalV(g.name), off |-> 0], IntR(g.init.n)>>}
      [] g.init.v = "constarray" ->
            {<<[obj |-> GlobalV(g.name), off |-> k - 1], IntR(g.init.vals[k].n)>> :
                k \in {k \in DOMAIN g.init.vals : g.init.vals[k].v = "const"}}
      [] OTHER -> {}

InitialMem(gs) ==
    LET cells == UNION {GlobalCells(gs[i]) : i \in DOMAIN gs}
    IN [c \in {p[1] : p \in cells} |-> (CHOOSE p \in cells : p[1] = c)[2]]

BlockOf(f, bb) == f.blocks[CHOOSE b \in DOMAIN f.blocks : f.blocks[b].id = bb]
ExecBlock == BlockOf(GetFun(funcs, exec.fn), exec.bb)

UserFuns == {i \in DOMAIN funcs : funcs[i].blocks # <<>>}

\* A run is of one function: it takes scalars and calls only printf and scanf.
Runnable(f) ==
    /\ \A i \in DOMAIN f.params : f.params[i].l \in {"i64", "i1"}
    /\ \A b \in DOMAIN f.blocks : \A k \in DOMAIN f.blocks[b].ins :
          f.blocks[b].ins[k].op = "call" => f.blocks[b].ins[k].callee \in {printFun, scanFun}

ExecStart ==
    /\ status = "done"
    /\ exec.st = "off"
    /\ \E i \in UserFuns :
          /\ Runnable(funcs[i])
          /\ \E args \in [DOMAIN funcs[i].params -> ArgVals] :
                exec' = [st |-> "run", fn |-> funcs[i].name, bb |-> funcs[i].blocks[1].id,
                         pc |-> 1, regs |-> <<>>, mem |-> InitialMem(globals),
                         args |-> [k \in DOMAIN args |-> IntR(args[k])],
                         out |-> <<>>, ret |-> UndefR,
                         seen |-> {funcs[i].blocks[1].id}]
    /\ UNCHANGED <<ast, build, stack, scopes, funcs, globals, currFun, currBB, interResult,
                   nextId, status>>

SetReg(e, id, val) == [e EXCEPT !.regs = Put(e.regs, id, val), !.pc = e.pc + 1]
Jump(e, bb) == [e EXCEPT !.bb = bb, !.pc = 1, !.seen = e.seen \cup {bb}]
Undefined(e) == [e EXCEPT !.st = "ub"]

ArithR(op, a, b) ==
    IF a.r = "int" /\ b.r = "int" /\ ~(op = "sdiv" /\ b.n = 0)
    THEN IntR(Fold(op, ConstInt(I64, a.n), ConstInt(I64, b.n)).n)
    ELSE UndefR

StoreR(e, val, ptr) ==
    IF ptr.r = "addr" THEN {[e EXCEPT !.mem = Put(e.mem, Cell(ptr), val), !.pc = e.pc + 1]}
    ELSE {Undefined(e)}

LoadR(e, id, ptr) ==
    IF ptr.r # "addr" THEN {Undefined(e)}
    ELSE {SetReg(e, id, IF Cell(ptr) \in DOMAIN e.mem THEN e.mem[Cell(ptr)] ELSE UndefR)}

CallR(e, i, argv) ==
    IF i.callee = printFun
    THEN {[SetReg(e, i.id, UndefR) EXCEPT !.out = Append(e.out, argv[2])]}
    ELSE IF argv[2].r # "addr" THEN {Undefined(e)}
    ELSE {[SetReg(e, i.id, UndefR) EXCEPT !.mem = Put(e.mem, Cell(argv[2]), IntR(n))] :
            n \in ScanInputs}

CondBrR(e, c, t, f) ==
    CASE c = IntR(1) -> {Jump(e, t)}
      [] c = IntR(0) -> {Jump(e, f)}
      [] OTHER -> {Jump(e, t), Jump(e, f)}

\* The states a run can be in after instruction i.
StepResults(e, i) ==
    LET val(x) == OperandVal(x, e.regs, e.args)
    IN CASE i.op = "alloca" -> {SetReg(e, i.id, AddrR(InstV(i.id), 0))}
         [] i.op = "store" -> StoreR(e, val(i.val), val(i.ptr))
         [] i.op = "load" -> LoadR(e, i.id, val(i.ptr))
         [] i.op = "gep" ->
               {SetReg(e, i.id, GEPValue(i.ty, val(i.base),
                                         [k \in DOMAIN i.idxs |-> val(i.idxs[k])]))}
         [] i.op = "call" -> CallR(e, i, [k \in DOMAIN i.args |-> val(i.args[k])])
         [] i.op = "br" -> {Jump(e, i.dest)}
         [] i.op = "condbr" -> CondBrR(e, val(i.cond), i.t, i.f)
         [] i.op = "ret" -> {[e EXCEPT !.st = "ret", !.ret = val(i.val)]}
         [] i.op = "neg" -> {SetReg(e, i.id, ArithR("sub", IntR(0), val(i.x)))}
         [] i.op = "not" -> {SetReg(e, i.id, ArithR("sub", IntR(1), val(i.x)))}
         [] OTHER -> {SetReg(e, i.id, ArithR(i.op, val(i.l), val(i.r)))}

ExecStep ==
    /\ exec.st = "run"
    /\ exec.pc <= Len(ExecBlock.ins)
    /\ exec' \in StepResults(exec, ExecBlock.ins[exec.pc])
    /\ UNCHANGED <<ast, build, stack, scopes, funcs, globals, currFun, currBB, interResult,
                   nextId, status>>

\* Control runs off the end of a block that has no terminator.
ExecUndefined ==
    /\ exec.st = "run"
    /\ exec.pc > Len(ExecBlock.ins)
    /\ exec' = Undefined(exec)
    /\ UNCHANGED <<ast, build, stack, scopes, funcs, globals, currFun, currBB, interResult,
                   nextId, status>>

-----------------------------------------------------------------------------
(* The inputs: type-checked modules, within bounds.                         *)

MaxNodes == 3     \* statements in a function body of the control-flow modules
MaxParams == 2    \* parameters of the summing function
MaxArr == 3       \* elements of the local array
MaxVal == 3       \* literal values of array elements
MaxDecls == 3     \* top-level declarations of the declaration-order modules

Param(name, ty) == [name |-> name, ty |-> ty]

\* Control flow: f(c : bool), its body any nesting of if, while, return and
\* local declaration with at most MaxNodes statements.
CondC == Load(Var("c", BoolT), BoolT)
CtlLeaves == {ReturnStmt(IntLit(0)), VarDecl("x", IntT, FALSE, IntLit(1), <<>>)}

RECURSIVE StmtsOf(_)
RECURSIVE BodiesOf(_)
StmtsOf(n) ==
    IF n = 0 THEN {}
    ELSE (IF n = 1 THEN CtlLeaves ELSE {})
         \cup {WhileStmt(CondC, b) : b \in BodiesOf(n - 1)}
         \cup UNION {{IfStmt(CondC, t, el) : t \in BodiesOf(a), el \in BodiesOf(n - 1 - a)} :
                     a \in 0..(n - 1)}

BodiesOf(n) ==
    IF n = 0 THEN {<<>>}
    ELSE UNION {{<<st>> \o r : st \in StmtsOf(k), r \in BodiesOf(n - k)} : k \in 1..n}

\* The semantic analysis rejects a second declaration of a name in one scope.
RECURSIVE NoRedeclaration(_)
NoRedeclaration(body) ==
    /\ \A i, j \in DOMAIN body :
          (i # j /\ body[i].s = "Var" /\ body[j].s = "Var") => body[i].name # body[j].name
    /\ \A i \in DOMAIN body :
          CASE body[i].s = "If" ->
                  NoRedeclaration(body[i].thenBody) /\ NoRedeclaration(body[i].elseBody)
            [] body[i].s = "While" -> NoRedeclaration(body[i].body)
            [] OTHER -> TRUE

CtlModules ==
    {ModuleDecl(<<FunDecl("f", IntT, <<Param("c", BoolT)>>, b)>>) :
        b \in {b \in UNION {BodiesOf(n) : n \in 0..MaxNodes} : NoRedeclaration(b)}}

\* Parameters: sum(p1, .., pn) returns p1 + .. + pn, optionally after a local
\* declaration; n up to MaxParams.
ParamNames == <<"p1", "p2", "p3", "p4">>

RECURSIVE SumOf(_)
SumOf(n) ==
    IF n = 0 THEN IntLit(0)
    ELSE IF n = 1 THEN Load(Var(ParamNames[1], IntT), IntT)
    ELSE BinArith("Add", SumOf(n - 1), Load(Var(ParamNames[n], IntT), IntT))

SumBodies(n) ==
    {<<ReturnStmt(SumOf(n))>>,
     <<VarDecl("x", IntT, FALSE, NoExpr, <<>>), ReturnStmt(SumOf(n))>>,
     <<VarDecl("x", IntT, FALSE, SumOf(n), <<>>), ReturnStmt(Load(Var("x", IntT), IntT))>>}

SumModules ==
    UNION {{ModuleDecl(<<FunDecl("sum", IntT,
                                 [i \in 1..n |-> Param(ParamNames[i], IntT)], b)>>) :
             b \in SumBodies(n)} : n \in 0..MaxParams}

\* Scan: main reads into a local (with or without an initializer) or into
\* its parameter, then prints what it read.
ScanModules ==
    {ModuleDecl(<<FunDecl("main", IntT, <<>>,
                          <<VarDecl("x", IntT, FALSE, i, <<>>),
                            ScanStmt(Var("x", IntT)),
                            PrintStmt(Load(Var("x", IntT), IntT)),
                            ReturnStmt(IntLit(0))>>)>>) : i \in {NoExpr, IntLit(0)}}
    \cup {ModuleDecl(<<FunDecl("main", IntT, <<Param("p1", IntT)>>,
                               <<ScanStmt(Var("p1", IntT)),
                                 ReturnStmt(Load(Var("p1", IntT), IntT))>>)>>)}

\* Local array: a : [N x int] := [v1, .., vN] in its pre-expanded form (one
\* assignment per element), then print a[i].
ArrVar(n) == Var("a", ArrT(n, IntT))
LoweredArrayInit(n, vals) ==
    [k \in 1..n |-> Assign(ArrayAccess(ArrVar(n), IntLit(k - 1), IntT), IntLit(vals[k]))]

ArrayModule(n, vals, i) ==
    ModuleDecl(<<FunDecl("main", IntT, <<>>,
                         <<VarDecl("a", ArrT(n, IntT), FALSE, NoExpr, LoweredArrayInit(n, vals)),
                           PrintStmt(Load(ArrayAccess(ArrVar(n), IntLit(i), IntT), IntT)),
                           ReturnStmt(IntLit(0))>>)>>)

ArrayModules ==
    UNION {{ArrayModule(n, vals, i) : vals \in [1..n -> 1..MaxVal], i \in 0..(n - 1)} :
           n \in 1..MaxArr}

\* Array access: g(p : int*, i : int) with a local array a, a local matrix m
\* and a global array ga indexes one of them by a literal or by i, then
\* prints a[i]; main passes its array to g, which decays it.
Arr2 == ArrT(2, IntT)
Mat2 == ArrT(2, Arr2)
AccessBases ==
    {Var("p", PtrT(IntT)), Var("a", Arr2), Var("ga", Arr2),
     ArrayAccess(Var("m", Mat2), IntLit(1), Arr2)}
AccessIndexes == {IntLit(0), IntLit(1), Load(Var("i", IntT), IntT)}
AccessExprs == {ArrayAccess(b, i, IntT) : b \in AccessBases, i \in AccessIndexes}
AccessStmts ==
    {ExprStmt(Assign(x, IntLit(5))) : x \in AccessExprs}
    \cup {PrintStmt(Load(x, IntT)) : x \in AccessExprs}
    \cup {ExprStmt(x) : x \in AccessExprs}

AccessModules ==
    {ModuleDecl(<<VarDecl("ga", Arr2, TRUE, ArrayInit(<<IntLit(1), IntLit(2)>>, Arr2), <<>>),
                  FunDecl("g", IntT, <<Param("p", PtrT(IntT)), Param("i", IntT)>>,
                          <<VarDecl("a", Arr2, FALSE, NoExpr, <<>>),
                            VarDecl("m", Mat2, FALSE, NoExpr, <<>>),
                            st,
                            PrintStmt(Load(ArrayAccess(Var("a", Arr2), Load(Var("i", IntT), IntT),
                                                       IntT), IntT)),
                            ReturnStmt(IntLit(0))>>),
                  FunDecl("main", IntT, <<>>,
                          <<VarDecl("a", Arr2, FALSE, NoExpr, <<>>),
                            ReturnStmt(Call("g", <<Load(Var("a", Arr2), Arr2), IntLit(1)>>,
                                            IntT))>>)>>) : st \in AccessStmts}

\* Declaration order: up to MaxDecls top-level declarations in any order, each
\* a global (with or without a constant initializer) or a function that
\* returns a call of any function of the module (itself, an earlier or a later
\* one) or the value of any global of the module.
FunNames == <<"f1", "f2", "f3", "f4">>
GlobalNames == <<"g1", "g2", "g3", "g4">>
GlobalInits == {NoExpr, IntLit(7)}

DeclChoices(n) ==
    [kind : {"var"}, init : GlobalInits]
    \cup [kind : {"call", "read"}, ref : 1..n]

DeclOf(k, c) ==
    CASE c.kind = "var" -> VarDecl(GlobalNames[k], IntT, TRUE, c.init, <<>>)
      [] c.kind = "call" ->
            FunDecl(FunNames[k], IntT, <<>>,
                    <<ReturnStmt(Call(FunNames[c.ref], <<>>, IntT))>>)
      [] c.kind = "read" ->
            FunDecl(FunNames[k], IntT, <<>>,
                    <<ReturnStmt(Load(Var(GlobalNames[c.ref], IntT), IntT))>>)

RefsResolve(cs) ==
    \A k \in DOMAIN cs :
        /\ cs[k].kind = "call" => cs[cs[k].ref].kind # "var"
        /\ cs[k].kind = "read" => cs[cs[k].ref].kind = "var"

DeclModules ==
    UNION {{ModuleDecl([k \in 1..n |-> DeclOf(k, cs[k])]) :
             cs \in {cs \in [1..n -> DeclChoices(n)] : RefsResolve(cs)}} :
           n \in 0..MaxDecls}

\* A global that bears the name createPrintScanFunctions gives the print
\* format string.
ClashModules ==
    {ModuleDecl(<<VarDecl("formatstr", IntT, TRUE, i, <<>>),
                  FunDecl("main", IntT, <<>>, <<ReturnStmt(IntLit(0))>>)>>) : i \in GlobalInits}

\* Shapes that semantic checking should have excluded: a global whose
\* initializer is the value of another global, a global array initializer
\* with such an element, and a dereference of an int.
ShapeModules ==
    {ModuleDecl(<<VarDecl("g1", IntT, TRUE, IntLit(7), <<>>),
                  VarDecl("g2", IntT, TRUE, Load(Var("g1", IntT), IntT), <<>>)>>),
     ModuleDecl(<<VarDecl("g1", IntT, TRUE, IntLit(7), <<>>),
                  VarDecl("ga", Arr2, TRUE,
                          ArrayInit(<<IntLit(1), Load(Var("g1", IntT), IntT)>>, Arr2), <<>>)>>),
     ModuleDecl(<<FunDecl("main", IntT, <<>>,
                          <<VarDecl("x", IntT, FALSE, IntLit(0), <<>>),
                            PrintStmt(Load(PointerOp("Deref", Var("x", IntT), IntT), IntT)),
                            ReturnStmt(IntLit(0))>>)>>)}

\* main takes the address of x into p, then may write through p or evaluate
\* *p or &x for nothing, then prints *p and x.
IntPtr == PtrT(IntT)
DerefP == PointerOp("Deref", Var("p", IntPtr), IntT)
AddressOfX == PointerOp("AddressOf", Var("x", IntT), IntPtr)

PointerUses ==
    {<<>>, <<ExprStmt(DerefP)>>, <<ExprStmt(AddressOfX)>>}
    \cup {<<ExprStmt(Assign(DerefP, IntLit(w)))>> : w \in 0..MaxVal}

PointerBody(v, uses) ==
    <<VarDecl("x", IntT, FALSE, IntLit(v), <<>>),
      VarDecl("p", IntPtr, FALSE, NoExpr, <<>>),
      ExprStmt(Assign(Var("p", IntPtr), AddressOfX))>>
    \o uses
    \o <<PrintStmt(Load(DerefP, IntT)),
         PrintStmt(Load(Var("x", IntT), IntT)),
         ReturnStmt(IntLit(0))>>

PointerModules ==
    {ModuleDecl(<<FunDecl("main", IntT, <<>>, PointerBody(v, uses))>>) :
        v \in 0..MaxVal, uses \in PointerUses}

Modules ==
    CtlModules \cup SumModules \cup ScanModules \cup ArrayModules
    \cup AccessModules \cup DeclModules \cup ClashModules \cup ShapeModules
    \cup PointerModules

\* The builds in which an input is lowered: both where an assertion of the
\* pass or of LLVM can fire, the one with assertions elsewhere.
Builds(m) == IF m \in ClashModules \cup ShapeModules THEN {"assert", "release"} ELSE {"assert"}

Init ==
    /\ ast \in Modules
    /\ build \in Builds(ast)
    /\ stack = <<>>
    /\ scopes = <<>>
    /\ funcs = <<>>
    /\ globals = <<>>
    /\ currFun = NoFun
    /\ currBB = NoBB
    /\ interResult = Null
    /\ nextId = 1
    /\ status = "idle"
    /\ exec = [st |-> "off"]

Next ==
    \/ ModuleBegin
    \/ Pass1Fun
    \/ Pass1Var
    \/ Pass2Skip
    \/ ModuleEnd
    \/ FunBegin
    \/ FunEnd
    \/ LowerExprStmt
    \/ LowerReturn
    \/ LowerPrint
    \/ LowerScan
    \/ LowerVarDecl
    \/ IfBegin
    \/ ThenEnd
    \/ ElseEnd
    \/ WhileBegin
    \/ WhileEnd
    \/ ExecStart
    \/ ExecStep
    \/ ExecUndefined

Spec == Init /\ [][Next]_vars

-----------------------------------------------------------------------------
(* Properties.                                                              *)

\* The functions the module defines, and observations of the IR.
Lowered == {i \in DOMAIN funcs : funcs[i].blocks # <<>>}
AllIns(f) == UNION {{f.blocks[b].ins[k] : k \in DOMAIN f.blocks[b].ins} : b \in DOMAIN f.blocks}
BlockIds(f) == {f.blocks[b].id : b \in DOMAIN f.blocks}
Last(q) == q[Len(q)]
CurBlock == BlockOf(GetFun(funcs, currFun), currBB)

OneTerminator(b) ==
    /\ b.ins # <<>>
    /\ IsTerminator(Last(b.ins))
    /\ \A k \in 1..(Len(b.ins) - 1) : ~IsTerminator(b.ins[k])

\* Inputs on which the claim is at its most favourable: every function body
\* ends with a return, and no statement list goes on after a return.
RECURSIVE NoDeadCode(_)
NoDeadCode(body) ==
    \A i \in DOMAIN body :
        /\ body[i].s = "Return" => i = Len(body)
        /\ body[i].s = "If" => NoDeadCode(body[i].thenBody) /\ NoDeadCode(body[i].elseBody)
        /\ body[i].s = "While" => NoDeadCode(body[i].body)

EndsWithReturn(body) == body # <<>> /\ Last(body).s = "Return"

ReturnsProperly ==
    \A i \in DOMAIN ast.body :
        ast.body[i].s = "Fun" =>
            EndsWithReturn(ast.body[i].body) /\ NoDeadCode(ast.body[i].body)

\* C1: after lowering, every basic block of every lowered function ends in
\* exactly one terminator: none holds two, none is left without one.  (Stated
\* for modules whose functions return on their last statement and hold no
\* statement after a return.)
C1_OneTerminatorPerBlock ==
    (status = "done" /\ ReturnsProperly) =>
        \A i \in Lowered : \A b \in DOMAIN funcs[i].blocks : OneTerminator(funcs[i].blocks[b])

\* The function being lowered, before and after a step.
FunNow == GetFun(funcs, currFun)
FunNext == GetFun(funcs', currFun)
\* The block that was current before a step, as the step leaves it.
LeftBlock == BlockOf(FunNext, currBB)

\* The blocks the if and while statements of a body account for.
RECURSIVE BlocksFor(_)
BlocksFor(body) ==
    IF body = <<>> THEN 0
    ELSE BlocksFor(Tail(body)) +
         CASE Head(body).s = "If" ->
                 (IF Head(body).elseBody = <<>> THEN 2 ELSE 3)
                 + BlocksFor(Head(body).thenBody) + BlocksFor(Head(body).elseBody)
           [] Head(body).s = "While" -> 3 + BlocksFor(Head(body).body)
           [] OTHER -> 0

C2_BlockCount ==
    status = "done" =>
        \A i \in DOMAIN ast.body :
            ast.body[i].s = "Fun" =>
                Len(GetFun(funcs, ast.body[i].name).blocks) = 1 + BlocksFor(ast.body[i].body)

C2_IfBegin ==
    (AtStmt /\ Stmt.s = "If") =>
        /\ Len(FunNext.blocks) = Len(FunNow.blocks) + 1
        /\ Last(FunNext.blocks).name = "then"
        /\ Last(FunNext.blocks).id = currBB'
        /\ Last(stack').f = "then"
        /\ Last(stack').mergeBB \notin BlockIds(FunNext)
        /\ Last(LeftBlock.ins).op = "condbr"
        /\ Last(LeftBlock.ins).t = currBB'
        /\ IF Stmt.elseBody = <<>>
           THEN Last(LeftBlock.ins).f = Last(stack').mergeBB
           ELSE /\ Last(LeftBlock.ins).f = Last(stack').elseBB
                /\ Last(stack').elseBB # Last(stack').mergeBB
                /\ Last(stack').elseBB \notin BlockIds(FunNext)

C2_ThenEnd ==
    AtEnd("then") =>
        /\ Last(LeftBlock.ins) = [op |-> "br", id |-> Last(LeftBlock.ins).id, dest |-> Top.mergeBB]
        /\ Len(FunNext.blocks) = Len(FunNow.blocks) + 1
        /\ IF Top.elseBody = <<>>
           THEN /\ Last(FunNext.blocks).id = Top.mergeBB
                /\ Last(FunNext.blocks).name = "merge"
                /\ currBB' = Top.mergeBB
                /\ stack' = Pop(stack)
           ELSE /\ Last(FunNext.blocks).id = Top.elseBB
                /\ Last(FunNext.blocks).name = "else"
                /\ currBB' = Top.elseBB
                /\ Last(stack').f = "else"
                /\ Last(stack').mergeBB = Top.mergeBB

C2_ElseEnd ==
    AtEnd("else") =>
        /\ Last(LeftBlock.ins) = [op |-> "br", id |-> Last(LeftBlock.ins).id, dest |-> Top.mergeBB]
        /\ Len(FunNext.blocks) = Len(FunNow.blocks) + 1
        /\ Last(FunNext.blocks).id = Top.mergeBB
        /\ Last(FunNext.blocks).name = "merge"
        /\ currBB' = Top.mergeBB
        /\ stack' = Pop(stack)

\* C2: an if adds exactly 2 blocks (then, merge) without an else and 3 (then,
\* else, merge) with one, so that a lowered function has 1 + 2 per if + 3 per
\* if-else + 3 per while blocks; the conditional branch goes to then and, on
\* false, to merge (no else) or to else; the then-path and the else-path each
\* end with a branch to the one merge block, where emission resumes.
C2_IfLowering ==
    /\ []C2_BlockCount
    /\ [][C2_IfBegin /\ C2_ThenEnd /\ C2_ElseEnd]_vars

\* An if-else and an if without else have both been lowered into f.
C2_Witness ==
    /\ status = "done"
    /\ \E i \in Lowered :
          /\ \E b \in DOMAIN funcs[i].blocks : funcs[i].blocks[b].name = "else"
          /\ Cardinality({b \in DOMAIN funcs[i].blocks : funcs[i].blocks[b].name = "merge"}) = 2

-----------------------------------------------------------------------------

Branches(f) == {i \in AllIns(f) : i.op \in {"br", "condbr"}}
Targets(i) == IF i.op = "br" THEN {i.dest} ELSE {i.t, i.f}
Named(f, name) == {b \in DOMAIN f.blocks : f.blocks[b].name = name}
HasBlock(f, bb) == bb \in BlockIds(f)

\* The conditional branches of loops: those whose true target is a body block.
LoopTests(f) ==
    {i \in AllIns(f) : i.op = "condbr" /\ HasBlock(f, i.t) /\ BlockOf(f, i.t).name = "body"}

RECURSIVE Whiles(_)
Whiles(body) ==
    IF body = <<>> THEN 0
    ELSE Whiles(Tail(body)) +
         CASE Head(body).s = "If" -> Whiles(Head(body).thenBody) + Whiles(Head(body).elseBody)
           [] Head(body).s = "While" -> 1 + Whiles(Head(body).body)
           [] OTHER -> 0

\* In the finished function each while accounts for one condition and one
\* body block, and the rest of the blocks beside entry are if and merge blocks.
C3_BlockCount ==
    status = "done" =>
        \A i \in DOMAIN ast.body :
            ast.body[i].s = "Fun" =>
                LET f == GetFun(funcs, ast.body[i].name)
                IN /\ Cardinality(Named(f, "cond")) = Whiles(ast.body[i].body)
                   /\ Cardinality(Named(f, "body")) = Whiles(ast.body[i].body)
                   /\ Cardinality(LoopTests(f)) = Whiles(ast.body[i].body)

\* The loop test sits at the end of a condition block; the body is entered
\* from the test's true edge alone, the loop's merge from its false edge alone.
C3_Edges ==
    \A i \in Lowered : \A t \in LoopTests(funcs[i]) :
        /\ \E b \in Named(funcs[i], "cond") : Last(funcs[i].blocks[b].ins) = t
        /\ t.f # t.t
        /\ \A j \in Branches(funcs[i]) : (t.t \in Targets(j) \/ t.f \in Targets(j)) => j = t

\* A run that is in a body block has been in the condition block before.
C3_TestedFirst ==
    (exec.st = "run" /\ ExecBlock.name = "body") =>
        \E t \in LoopTests(GetFun(funcs, exec.fn)) :
            /\ t.t = exec.bb
            /\ \E b \in exec.seen :
                  /\ HasBlock(GetFun(funcs, exec.fn), b)
                  /\ Last(BlockOf(GetFun(funcs, exec.fn), b).ins) = t

C3_WhileBegin ==
    (AtStmt /\ Stmt.s = "While") =>
        /\ Len(FunNext.blocks) = Len(FunNow.blocks) + 2
        /\ FunNext.blocks[Len(FunNext.blocks) - 1].name = "cond"
        /\ Last(FunNext.blocks).name = "body"
        /\ Last(FunNext.blocks).id = currBB'
        /\ Last(LeftBlock.ins) =
              [op |-> "br", id |-> Last(LeftBlock.ins).id,
               dest |-> FunNext.blocks[Len(FunNext.blocks) - 1].id]
        /\ Last(stack').f = "while"
        /\ Last(stack').condBB = FunNext.blocks[Len(FunNext.blocks) - 1].id
        /\ Last(stack').mergeBB \notin BlockIds(FunNext)
        /\ Last(FunNext.blocks[Len(FunNext.blocks) - 1].ins).op = "condbr"
        /\ Last(FunNext.blocks[Len(FunNext.blocks) - 1].ins).t = currBB'
        /\ Last(FunNext.blocks[Len(FunNext.blocks) - 1].ins).f = Last(stack').mergeBB

C3_WhileEnd ==
    AtEnd("while") =>
        /\ Last(LeftBlock.ins) = [op |-> "br", id |-> Last(LeftBlock.ins).id, dest |-> Top.condBB]
        /\ Top.condBB # Top.mergeBB
        /\ Len(FunNext.blocks) = Len(FunNow.blocks) + 1
        /\ Last(FunNext.blocks).id = Top.mergeBB
        /\ Last(FunNext.blocks).name = "merge"
        /\ currBB' = Top.mergeBB
        /\ stack' = Pop(stack)

\* C3: a while adds exactly 3 blocks (condition, body, merge); the block before
\* it branches unconditionally to condition, so every run enters condition
\* before body; the branch appended after the body goes to condition, never to
\* merge; merge is reached from the condition's false edge only.
C3_WhileLowering ==
    /\ [](C3_BlockCount /\ C3_Edges /\ C3_TestedFirst)
    /\ [][C3_WhileBegin /\ C3_WhileEnd]_vars

\* A run is executing the body of a loop.
C3_Witness == exec.st = "run" /\ ExecBlock.name = "body" /\ exec.pc = 1

-----------------------------------------------------------------------------

\* What a statement step appended to the block that was current.
Appended == SubSeq(LeftBlock.ins, Len(BlockOf(FunNow, currBB).ins) + 1, Len(LeftBlock.ins))
InsOf(q) == {q[k] : k \in DOMAIN q}

\* The array access a statement makes: a[i], a[i] := 5 or print a[i].
AccessIn(st) ==
    IF st.s = "Print" /\ st.x.e = "Load" THEN st.x.x
    ELSE IF st.s = "Expr" /\ st.x.e = "Assign" THEN st.x.dest
    ELSE IF st.s = "Expr" THEN st.x
    ELSE NoExpr
HasAccess(st) == AccessIn(st) # NoExpr /\ AccessIn(st).e = "ArrayAccess"

\* The address the statement used: the result left, the address stored to,
\* or the address the printed value was loaded from.
TargetVals(st, N, ir) ==
    IF st.s = "Print"
    THEN {l.ptr : l \in {l \in InsOf(N) :
                            /\ l.op = "load"
                            /\ \E c \in InsOf(N) : c.op = "call" /\ c.callee = printFun
                                                   /\ c.args[2] = InstV(l.id)}}
    ELSE IF st.x.e = "Assign"
    THEN {i.ptr : i \in {i \in InsOf(N) : i.op = "store" /\ i.val = ConstInt(I64, 5)}}
    ELSE {ir}

\* The value of the index: the literal, or the load of the index variable.
IndexVals(el, N) ==
    IF el.e = "IntLiteral" THEN {ConstInt(I64, el.n)}
    ELSE {InstV(l.id) : l \in {l \in InsOf(N) : l.op = "load" /\ l.ptr = Find(scopes, el.x.name)}}

\* The value of the base: the variable's slot, or for the row m[k] of a matrix
\* the two-index element address [0, k] computed on m's slot.
BaseVals(arr, N) ==
    IF arr.e = "Var" THEN {Find(scopes, arr.name)}
    ELSE {InstV(g.id) : g \in {g \in InsOf(N) :
                                  /\ g.op = "gep"
                                  /\ g.base = Find(scopes, arr.arr.name)
                                  /\ g.idxs = <<Zero64, ConstInt(I64, arr.el.n)>>}}

\* Array base: no load of the base; the address is base indexed by [0, index]
\* (a constant expression when base and index are both constants).
ArrayProtocol(T, B, I, N) ==
    /\ \A l \in InsOf(N) : l.op = "load" => l.ptr # B
    /\ Cardinality({g \in InsOf(N) : g.op = "gep" /\ g.base = B}) <= 1
    /\ \/ T.v = "constgep" /\ T.base = B /\ T.idxs = <<Zero64, I>>
       \/ \E g \in InsOf(N) :
             g.op = "gep" /\ T = InstV(g.id) /\ g.base = B /\ g.idxs = <<Zero64, I>>

\* Pointer base: the base is loaded once, and the loaded value is indexed by
\* the single index.
PointerProtocol(T, B, I, N) ==
    /\ Cardinality({l \in InsOf(N) : l.op = "load" /\ l.ptr = B}) = 1
    /\ Cardinality({g \in InsOf(N) : g.op = "gep" /\ g.base = B}) = 0
    /\ \E j, k \in DOMAIN N :
          /\ j < k
          /\ N[j].op = "load" /\ N[j].ptr = B
          /\ N[k].op = "gep" /\ T = InstV(N[k].id)
          /\ N[k].base = InstV(N[j].id) /\ N[k].idxs = <<I>>

AccessProtocol(st, x, N, ir) ==
    \E T \in TargetVals(st, N, ir), B \in BaseVals(x.arr, N), I \in IndexVals(x.el, N) :
        IF TypeKind(x.arr.ty) = "Array" THEN ArrayProtocol(T, B, I, N)
        ELSE PointerProtocol(T, B, I, N)

\* C4: lowering an array access on an array-typed base emits no load of the
\* base and computes the element address with the two indices [0, index]; on a
\* pointer-typed base it loads the base's stored value and indexes that with
\* the single index.
C4_ArrayAccessProtocol ==
    [][(AtStmt /\ HasAccess(Stmt)) => AccessProtocol(Stmt, AccessIn(Stmt), Appended, interResult')]_vars

\* g is lowered and holds both: a one-index address on a loaded pointer and a
\* two-index address on an array slot.
C4_Witness ==
    /\ status = "done"
    /\ \E i \in Lowered :
          /\ \E g \in AllIns(funcs[i]), l \in AllIns(funcs[i]) :
                g.op = "gep" /\ Len(g.idxs) = 1 /\ l.op = "load" /\ g.base = InstV(l.id)
          /\ \E g \in AllIns(funcs[i]), a \in AllIns(funcs[i]) :
                /\ g.op = "gep" /\ Len(g.idxs) = 2 /\ g.idxs[1] = Zero64
                /\ g.idxs[2].v = "inst" /\ a.op = "alloca" /\ g.base = InstV(a.id)

-----------------------------------------------------------------------------

FunDecls == {k \in DOMAIN ast.body : ast.body[k].s = "Fun"}
GlobalDecls == {k \in DOMAIN ast.body : ast.body[k].s = "Var"}

ForwardDeclared(d) ==
    \E j \in DOMAIN funcs :
        /\ funcs[j].name = d.name
        /\ funcs[j].ret = ToLLVMType(d.retTy)
        /\ Len(funcs[j].params) = Len(d.args)

GlobalEmitted(d) ==
    /\ HasGlobal(globals, d.name)
    /\ d.init # NoExpr => globals[GlobalIdx(globals, d.name)].init # Null

\* The functions a body calls in its return statements.
CalledNames(body) ==
    {body[k].x.name : k \in {k \in DOMAIN body : body[k].s = "Return" /\ body[k].x.e = "Call"}}

UserCallees(f) ==
    {c.callee : c \in {c \in AllIns(f) : c.op = "call" /\ c.callee \notin {printFun, scanFun}}}

\* Once any body is being lowered, every function of the module is declared
\* and bound to its name, and every global is emitted with its initializer.
C5_FirstPassComplete ==
    Lowered # {} =>
        /\ \A k \in FunDecls :
              /\ ForwardDeclared(ast.body[k])
              /\ status = "lowering" => Find(scopes, ast.body[k].name) = FuncV(ast.body[k].name)
        /\ \A k \in GlobalDecls : GlobalEmitted(ast.body[k])

\* Every call the bodies hold went to the function of that name, which has
\* been given its body, and no lookup of a callee failed.
C5_CallsResolve ==
    /\ (FunDecls # {} /\ \A k \in FunDecls : CalledNames(ast.body[k].body) # {}) => status # "fatal"
    /\ status = "done" =>
          \A k \in FunDecls :
              /\ UserCallees(GetFun(funcs, ast.body[k].name))
                    = {FuncV(n) : n \in CalledNames(ast.body[k].body)}
              /\ \A n \in CalledNames(ast.body[k].body) : GetFun(funcs, n).blocks # <<>>

\* C5: all functions are forward-declared and all globals emitted before any
\* function body is lowered, so a call resolves to its function wherever that
\* function is declared in the module: earlier, later, or the caller itself.
C5_TwoPass == C5_FirstPassComplete /\ C5_CallsResolve

\* A function calls one declared after it, and a function calls itself.
C5_Witness ==
    /\ status = "done"
    /\ \E k \in FunDecls, j \in FunDecls :
          /\ k < j
          /\ ast.body[j].name \in CalledNames(ast.body[k].body)
          /\ FuncV(ast.body[j].name) \in UserCallees(GetFun(funcs, ast.body[k].name))
          /\ FuncV(ast.body[j].name) \in UserCallees(GetFun(funcs, ast.body[j].name))

-----------------------------------------------------------------------------

OpenBodies == Cardinality({k \in DOMAIN stack : stack[k].f \in BodyFrames})

\* The scope stack is as deep as the constructs that are open: the module's
\* scope plus one per function, branch or loop body being lowered.
C6_Depth ==
    /\ status = "lowering" => Len(scopes) = 1 + OpenBodies
    /\ status \in {"idle", "done"} => scopes = <<>>

Closing == AtEnd("fun") \/ AtEnd("then") \/ AtEnd("else") \/ AtEnd("while")
Outer(sc) == SubSeq(sc, 1, Len(sc) - 1)

\* A statement that opens no body leaves the depth and the outer scopes alone;
\* an if or while opens one scope; the end of a body closes its scope, after
\* which no name declared in it resolves to its binding any more.
C6_Step ==
    /\ (AtStmt /\ Stmt.s \notin {"If", "While"}) =>
          Len(scopes') = Len(scopes) /\ Outer(scopes') = Outer(scopes)
    /\ (AtStmt /\ Stmt.s \in {"If", "While"}) =>
          Len(scopes') = Len(scopes) + 1 /\ Outer(scopes') = scopes
    /\ Closing =>
          /\ Outer(scopes) = IF Len(stack') = Len(stack) THEN Outer(scopes') ELSE scopes'
          /\ \A n \in DOMAIN Last(scopes) : Find(scopes', n) # Last(scopes)[n]

\* C6: scopes are entered and left in LIFO order; the depth after a statement
\* equals the depth before it; names declared inside a function, an if branch
\* or a loop body do not resolve after that construct has ended.
C6_ScopeDiscipline == []C6_Depth /\ [][C6_Step]_vars

\* A local declared inside a branch or loop body that has ended: its slot is
\* in the function, its name resolves no more.
C6_Witness ==
    /\ status = "lowering"
    /\ stack # <<>> /\ Top.f = "fun"
    /\ \E a \in AllIns(GetFun(funcs, currFun)) :
          a.op = "alloca" /\ a.name = "x" /\ Find(scopes, "x") = Null
    /\ \E b \in DOMAIN GetFun(funcs, currFun).blocks :
          GetFun(funcs, currFun).blocks[b].name = "merge"

-----------------------------------------------------------------------------

Entry(d) == GetFun(funcs, d.name).blocks[1].ins
BeingLowered(d) == status = "lowering" /\ currFun = d.name /\ Len(stack) >= 2 /\ stack[2].f = "fun"
               /\ stack[1].f = "module" /\ ast.body[stack[1].i] = d

\* Where the slot of parameter pi and the store of the i-th argument sit.
SlotPos(d, i) == {k \in DOMAIN Entry(d) : Entry(d)[k].op = "alloca" /\ Entry(d)[k].name = d.args[i].name}
StorePos(d, i) == {k \in DOMAIN Entry(d) : Entry(d)[k].op = "store" /\ Entry(d)[k].val = ArgV(i)}
ParamPos(d) == UNION {SlotPos(d, i) \cup StorePos(d, i) : i \in DOMAIN d.args}

\* Each parameter has one slot of its type in the entry block, directly
\* followed by the one store of its argument into that slot; slots are made
\* in declaration order; while the body is lowered the name is bound to the
\* slot.
ParamSlots(d) ==
    /\ \A i \in DOMAIN d.args :
          /\ Cardinality(SlotPos(d, i)) = 1
          /\ Cardinality(StorePos(d, i)) = 1
          /\ \A k \in SlotPos(d, i) :
                /\ Entry(d)[k].ty = ToLLVMType(d.args[i].ty)
                /\ StorePos(d, i) = {k + 1}
                /\ Entry(d)[k + 1].ptr = InstV(Entry(d)[k].id)
                /\ (BeingLowered(d) /\ Len(stack) = 2) =>
                      Find(scopes, d.args[i].name) = InstV(Entry(d)[k].id)
    /\ \A i \in DOMAIN d.args : \A j \in DOMAIN d.args :
          i < j => \A k \in SlotPos(d, i) : \A m \in SlotPos(d, j) :
                      Entry(d)[k].id < Entry(d)[m].id
    /\ \A b \in DOMAIN GetFun(funcs, d.name).blocks :
          b > 1 => \A k \in DOMAIN GetFun(funcs, d.name).blocks[b].ins :
                      /\ GetFun(funcs, d.name).blocks[b].ins[k].op # "alloca"
                      /\ GetFun(funcs, d.name).blocks[b].ins[k].op = "store" =>
                            GetFun(funcs, d.name).blocks[b].ins[k].val.v # "arg"

\* The parameter slots and stores come before every other instruction of the
\* entry block.
ParamsFirst(d) ==
    \A k \in DOMAIN Entry(d) : \A m \in ParamPos(d) : k \notin ParamPos(d) => m < k

\* The parameter slots and stores come before every other instruction of the
\* entry block that is not the slot of a local declared in the body.
ParamsBeforeBodyCode(d) ==
    \A k \in DOMAIN Entry(d) : \A m \in ParamPos(d) :
        (k \notin ParamPos(d) /\ Entry(d)[k].op # "alloca") => m < k

Ops(q) == [k \in DOMAIN q |-> q[k].op]

\* sum(p1, p2) returning p1 + p2: the stores, then load, load, add, return.
SumOfTwo(d) ==
    (Len(d.args) = 2 /\ d.body = <<ReturnStmt(SumOf(2))>> /\ status = "done") =>
        /\ Ops(Entry(d)) = <<"alloca", "store", "alloca", "store", "load", "load", "add", "ret">>
        /\ Entry(d)[5].ptr = InstV(Entry(d)[3].id) /\ Entry(d)[3].name = "p1"
        /\ Entry(d)[6].ptr = InstV(Entry(d)[1].id) /\ Entry(d)[1].name = "p2"
        /\ Entry(d)[7].l = InstV(Entry(d)[5].id) /\ Entry(d)[7].r = InstV(Entry(d)[6].id)
        /\ Entry(d)[8].val = InstV(Entry(d)[7].id)

LoweredDecls == {k \in FunDecls : ForwardDeclared(ast.body[k]) /\ GetFun(funcs, ast.body[k].name).blocks # <<>>}

\* C7 as stated: every parameter slot and store precedes, in the entry block,
\* every instruction produced from the body.
C7_ParamsPrecedeBody ==
    \A k \in LoweredDecls : ParamSlots(ast.body[k]) /\ ParamsFirst(ast.body[k]) /\ SumOfTwo(ast.body[k])

\* C7, amended: parameters are processed in declaration order, each gets a
\* slot in the entry block and a store of its argument into it, its name is
\* bound to the slot; these precede every instruction produced from the body
\* except the slots of the body's local declarations, which are put at the
\* front of the entry block; sum(p1, p2) lowers to the parameter stores
\* followed by load, load, add, return.
C7_ParamsPrecedeBodyCode ==
    \A k \in LoweredDecls :
        ParamSlots(ast.body[k]) /\ ParamsBeforeBodyCode(ast.body[k]) /\ SumOfTwo(ast.body[k])

\* sum(p1, p2) with a local x is lowered: x's slot is ahead of the parameters'.
C7_Witness ==
    /\ status = "done"
    /\ \E k \in LoweredDecls :
          /\ Len(ast.body[k].args) = 2
          /\ Entry(ast.body[k])[1].op = "alloca" /\ Entry(ast.body[k])[1].name = "x"
          /\ \E m \in DOMAIN Entry(ast.body[k]) : Entry(ast.body[k])[m].op = "add"

-----------------------------------------------------------------------------

Allocas(f) == {a \in AllIns(f) : a.op = "alloca"}

\* C8: lowering a scan of a variable emits one instruction, a call of the scan
\* entry point with exactly two arguments: the scan format string and the
\* address of the variable's slot.  No load is emitted, and the second
\* argument is the slot itself, not a value loaded from it.
C8_ScanPassesAddress ==
    [][(AtStmt /\ Stmt.s = "Scan") =>
          /\ Len(Appended) = 1
          /\ Appended[1].op = "call"
          /\ Appended[1].callee = scanFun
          /\ Len(Appended[1].args) = 2
          /\ Appended[1].args[1] = scanFormatStr
          /\ Appended[1].args[2] = Find(scopes, Stmt.x.name)
          /\ \E a \in Allocas(FunNext) :
                a.name = Stmt.x.name /\ Appended[1].args[2] = InstV(a.id)]_vars

\* A run of main has read a number into x through the address it passed.
C8_Witness ==
    /\ exec.st = "run"
    /\ \E c \in AllIns(GetFun(funcs, exec.fn)), a \in Allocas(GetFun(funcs, exec.fn)) :
          /\ c.op = "call" /\ c.callee = scanFun
          /\ a.name = "x" /\ c.args[2] = InstV(a.id)
          /\ c.id \in DOMAIN exec.regs
          /\ exec.mem[Cell(AddrR(InstV(a.id), 0))] = IntR(1)

-----------------------------------------------------------------------------

\* The constant a constant initializer denotes.
ConstOf(init) ==
    IF init.e = "IntLiteral" THEN ConstInt(I64, init.n)
    ELSE ConstArr(ToLLVMType(init.ty),
                  [k \in DOMAIN init.vals |-> ConstInt(I64, init.vals[k].n)])

IsConstInit(init) ==
    \/ init.e = "IntLiteral"
    \/ init.e = "ArrayInit" /\ \A k \in DOMAIN init.vals : init.vals[k].e = "IntLiteral"

Initialized == {k \in GlobalDecls : ast.body[k].init # NoExpr /\ IsConstInit(ast.body[k].init)}
FirstPassOver(k) ==
    \/ status = "done"
    \/ status \in {"lowering", "fatal"} /\ (stack[1].pass = 2 \/ stack[1].i > k)

SlotsOf(name) == {j \in DOMAIN globals : globals[j].name = name}

\* The functions that return the value of an initialized global.
ReadersOf(k) ==
    {j \in FunDecls : ast.body[j].body = <<ReturnStmt(Load(Var(ast.body[k].name, IntT), IntT))>>}

\* C9: a global declared with a constant initializer c has, once the first
\* pass is over its declaration, exactly one slot in the module, of the
\* declared type and private linkage, whose initializer is c, and its name is
\* bound to that slot in the module scope; a run that reads the global before
\* any store finds c.
C9_GlobalWithInitializer ==
    \A k \in Initialized :
        FirstPassOver(k) =>
            /\ Cardinality(SlotsOf(ast.body[k].name)) = 1
            /\ \A j \in SlotsOf(ast.body[k].name) :
                  /\ globals[j].linkage = "private"
                  /\ globals[j].ty = ToLLVMType(ast.body[k].ty)
                  /\ globals[j].init = ConstOf(ast.body[k].init)
                  /\ status = "lowering" => scopes[1][ast.body[k].name] = GlobalV(ast.body[k].name)
            /\ \A j \in ReadersOf(k) :
                  (exec.st = "ret" /\ exec.fn = ast.body[j].name) => exec.ret = IntR(ast.body[k].init.n)

\* A function that returns the global initialized to 7 has returned 7.
C9_Witness ==
    /\ exec.st = "ret"
    /\ exec.ret = IntR(7)
    /\ \E k \in Initialized : \E j \in ReadersOf(k) :
          /\ exec.fn = ast.body[j].name
          /\ ast.body[k].init = IntLit(7)
          /\ globals[GlobalIdx(globals, ast.body[k].name)].init = ConstInt(I64, 7)

-----------------------------------------------------------------------------

\* The module declares a local array with per-element assignments and prints
\* one of its elements.
PrintsElement ==
    /\ Len(ast.body) = 1
    /\ ast.body[1].s = "Fun"
    /\ Len(ast.body[1].body) = 3
    /\ ast.body[1].body[1].s = "Var"
    /\ ast.body[1].body[1].lowered # <<>>
    /\ ast.body[1].body[2].s = "Print"

ElementValue(k) == ast.body[1].body[1].lowered[k + 1].src.n
PrintedIndex == ast.body[1].body[2].x.x.el.n

\* C10: for a local array given by per-element assignments of v0 .. v(N-1),
\* running the IR of print a[i] passes v_i to printf: the run has no undefined
\* step, prints nothing else, and ends having printed exactly v_i.
C10_ArrayRoundTrip ==
    PrintsElement =>
        /\ exec.st # "ub"
        /\ exec.st = "run" => exec.out \in {<<>>, <<IntR(ElementValue(PrintedIndex))>>}
        /\ exec.st = "ret" => exec.out = <<IntR(ElementValue(PrintedIndex))>>

\* a := [1, 2, 3]; print a[1] has run and printed 2.
C10_Witness ==
    /\ PrintsElement
    /\ Len(ast.body[1].body[1].lowered) = 3
    /\ ElementValue(0) = 1 /\ ElementValue(1) = 2 /\ ElementValue(2) = 3
    /\ PrintedIndex = 1
    /\ exec.st = "ret"
    /\ exec.out = <<IntR(2)>>

-----------------------------------------------------------------------------

\* Globals whose initializer is no compile-time constant.
BadGlobals ==
    {k \in GlobalDecls : ast.body[k].init # NoExpr /\ ~IsConstInit(ast.body[k].init)}

\* Print statements that dereference an operand that is no pointer.
IsBadDeref(st) ==
    /\ st.s = "Print"
    /\ st.x.e = "Load"
    /\ st.x.x.e = "PointerOp"
    /\ st.x.x.kind = "Deref"
    /\ TypeKind(st.x.x.x.ty) # "Pointer"

BadDerefs ==
    {k \in FunDecls : \E j \in DOMAIN ast.body[k].body : IsBadDeref(ast.body[k].body[j])}

NullElement(val) == val.v = "constarray" /\ \E k \in DOMAIN val.vals : val.vals[k] = Null

-----------------------------------------------------------------------------

\* What a run of module lowering works on and leaves behind: the module's
\* globals and functions (with their blocks and instructions, in order) and
\* the state of the pass itself.
LoweringState ==
    <<stack, scopes, funcs, globals, currFun, currBB, interResult, nextId, status>>

\* The inputs that semantic checking accepts.
WellTyped == ast \notin ShapeModules

\* A step of the pass other than the one to v.
OtherStep(v) == Next /\ LoweringState' # v

-----------------------------------------------------------------------------

\* The pointer operation a statement makes: *p or &x alone, p := &x,
\* *p := w, or print *p.
PointerOpIn(st) ==
    IF st.s = "Print" /\ st.x.e = "Load" THEN st.x.x
    ELSE IF st.s = "Expr" /\ st.x.e = "Assign" /\ st.x.dest.e = "PointerOp" THEN st.x.dest
    ELSE IF st.s = "Expr" /\ st.x.e = "Assign" THEN st.x.src
    ELSE IF st.s = "Expr" THEN st.x
    ELSE NoExpr
HasPointerOp(st) ==
    /\ PointerOpIn(st) # NoExpr
    /\ PointerOpIn(st).e = "PointerOp"
    /\ PointerOpIn(st).x.e = "Var"
    /\ TypeKind(PointerOpIn(st).x.ty) = "Pointer" \/ PointerOpIn(st).kind = "AddressOf"

Loads(N) == {l \in InsOf(N) : l.op = "load"}
Stores(N) == {i \in InsOf(N) : i.op = "store"}

\* What the statement did with the operation's result: left it as the
\* result, stored to it, stored it, or loaded the printed value from it.
ResultUses(st, N, ir) ==
    IF st.s = "Print"
    THEN {l.ptr : l \in {l \in Loads(N) :
                            \E c \in InsOf(N) : c.op = "call" /\ c.callee = printFun
                                                /\ c.args[2] = InstV(l.id)}}
    ELSE IF st.x.e = "Assign" /\ st.x.dest.e = "PointerOp" THEN {i.ptr : i \in Stores(N)}
    ELSE IF st.x.e = "Assign" THEN {i.val : i \in Stores(N)}
    ELSE {ir}

\* Address-of: the operand's address is the result and nothing is loaded.
AddressOfProtocol(st, A, N, ir) ==
    /\ Loads(N) = {}
    /\ ResultUses(st, N, ir) = {A}

\* Dereference: one load of type lty from the evaluated operand, whose value
\* is the result; print *p alone loads once more, from that result.
DerefProtocol(st, A, N, ir, lty) ==
    /\ Cardinality(Loads(N)) = IF st.s = "Print" THEN 2 ELSE 1
    /\ \E l \in Loads(N) :
          /\ {m \in Loads(N) : m.ptr = A} = {l}
          /\ l.ty = lty
          /\ ResultUses(st, N, ir) = {InstV(l.id)}

OperandAddress(x) == Find(scopes, x.x.name)
PointeeType(x) == ToLLVMType(GetSubtype(x.x.ty))
PointerType(x) == ToLLVMType(x.x.ty)

DerefLoadsPointee(st, x, N, ir) ==
    IF x.kind = "AddressOf" THEN AddressOfProtocol(st, OperandAddress(x), N, ir)
    ELSE DerefProtocol(st, OperandAddress(x), N, ir, PointeeType(x))

DerefLoadsPointer(st, x, N, ir) ==
    IF x.kind = "AddressOf" THEN AddressOfProtocol(st, OperandAddress(x), N, ir)
    ELSE DerefProtocol(st, OperandAddress(x), N, ir, PointerType(x))

\* C13, as stated: a dereference of an operand of type pointer-to-T evaluates
\* the operand and emits exactly one load, of the pointee type T; address-of
\* evaluates the operand as an address and returns it, no load emitted.
C13_DerefLoadsPointee ==
    [][(AtStmt /\ HasPointerOp(Stmt))
          => DerefLoadsPointee(Stmt, PointerOpIn(Stmt), Appended, interResult')]_vars

PointerRuns == ast \in PointerModules
WrittenThrough == {st.x.src.n : st \in {st \in InsOf(ast.body[1].body) :
                      st.s = "Expr" /\ st.x.e = "Assign" /\ st.x.dest.e = "PointerOp"}}
PointeeValue == IF WrittenThrough = {} THEN ast.body[1].body[1].init.n
                ELSE CHOOSE w \in WrittenThrough : TRUE

\* The pointee's value is what print *p and print x both pass to printf.
PrintsPointee ==
    PointerRuns =>
        /\ exec.st # "ub"
        /\ exec.st = "ret" => exec.out = <<IntR(PointeeValue), IntR(PointeeValue)>>

\* C13, amended: a dereference of an operand of type pointer-to-T evaluates
\* the operand, which gives the address the pointer is kept at, and emits
\* exactly one load from it, of the pointer type: the result is the pointee's
\* address, which a store writes to and an enclosing load reads T from;
\* address-of evaluates the operand as an address and returns it, no load
\* emitted.  A run of p := &x; *p := w; print *p; print x prints w twice.
C13_DerefLoadsPointer ==
    /\ [][(AtStmt /\ HasPointerOp(Stmt))
             => DerefLoadsPointer(Stmt, PointerOpIn(Stmt), Appended, interResult')]_vars
    /\ []PrintsPointee

\* x := 1; p := &x; *p := 0; print *p; print x has run and printed 0, 0.
C13_Witness ==
    /\ PointerRuns
    /\ ast.body[1].body[1].init.n = 1
    /\ WrittenThrough = {0}
    /\ exec.st = "ret"
    /\ exec.out = <<IntR(0), IntR(0)>>

====
